---- MODULE Spec2Model ----
(***************************************************************************)
(* Record validators of the space-station exercises: SpaceStation (ex0),   *)
(* AlienContact (ex1) and SpaceMission with its nested CrewMember (ex2).   *)
(*                                                                         *)
(* A raw input is a string-keyed mapping (a function whose domain is the   *)
(* set of keys present).  Strings are sequences of characters, an          *)
(* Optional value is a sequence of length 0 (None) or 1, and a float is    *)
(* an integer number of tenths.  Constructing a model runs the declared    *)
(* field constraints in declaration order and, only when none of them      *)
(* failed, the mode="after" model validator.                               *)
(***************************************************************************)
EXTENDS Integers, Sequences, FiniteSets, TLC

VARIABLES kind, input, pc, outcome

vars == <<kind, input, pc, outcome>>

(***************************************************************************)
(* Bounds of the explored inputs.                                          *)
(***************************************************************************)
MaxCrew == 3

(***************************************************************************)
(* Values.                                                                 *)
(***************************************************************************)
\* A float literal of the source, in tenths.
Tenths(n) == n * 10

None == <<>>
Some(v) == <<v>>

\* The string s extended with "x" up to length n.
Pad(s, n) ==
    IF Len(s) >= n THEN s
    ELSE [i \in 1..n |-> IF i <= Len(s) THEN s[i] ELSE "x"]

\* str.startswith
StartsWith(s, p) == Len(s) >= Len(p) /\ SubSeq(s, 1, Len(p)) = p

RECURSIVE Flatten(_)
Flatten(ss) == IF ss = <<>> THEN <<>> ELSE Head(ss) \o Flatten(Tail(ss))

(***************************************************************************)
(* Violations.  A field violation carries the location pydantic reports    *)
(* (field, zero-based index in a list or -1, field of the list element)    *)
(* and the constraint that failed; a violation raised by a model validator *)
(* has the empty location and carries the message of the ValueError.       *)
(***************************************************************************)
FieldViolation(f, t) ==
    [field |-> f, index |-> -1, sub |-> "", type |-> t, msg |-> ""]

NestedViolation(f, i, e) ==
    [field |-> f, index |-> i, sub |-> e.field, type |-> e.type, msg |-> ""]

CrossViolation(m) ==
    [field |-> "", index |-> -1, sub |-> "", type |-> "value_error", msg |-> m]

\* Field(min_length=lo, max_length=hi) on a str
StrField(f, v, lo, hi) ==
    IF Len(v) < lo THEN <<FieldViolation(f, "string_too_short")>>
    ELSE IF Len(v) > hi THEN <<FieldViolation(f, "string_too_long")>>
    ELSE <<>>

\* Mutant: the bounds taken as exclusive (gt, lt).
NumField_Exclusive(f, v, lo, hi) ==
    IF v <= lo THEN <<FieldViolation(f, "greater_than")>>
    ELSE IF v >= hi THEN <<FieldViolation(f, "less_than")>>
    ELSE <<>>

\* Field(ge=lo, le=hi) on an int or a float
NumField(f, v, lo, hi) ==
    IF v < lo THEN <<FieldViolation(f, "greater_than_equal")>>
    ELSE IF v > hi THEN <<FieldViolation(f, "less_than_equal")>>
    ELSE <<>>

\* A field typed by an Enum: the raw value must be the value of a member.
EnumField(f, v, members) ==
    IF v \in members THEN <<>> ELSE <<FieldViolation(f, "enum")>>

\* Optional[str] = Field(default=None, max_length=hi)
OptStrField(f, v, hi) ==
    IF v # None /\ Len(v[1]) > hi THEN <<FieldViolation(f, "string_too_long")>>
    ELSE <<>>

\* The value of a field with a default.
WithDefault(d, f, default) == IF f \in DOMAIN d THEN d[f] ELSE default

\* The mapping d with the key f set to v (a keyword argument of a call).
With(d, f, v) == [g \in DOMAIN d \cup {f} |-> IF g = f THEN v ELSE d[g]]

\* The outcome of a model validator: the rules whose condition it evaluated,
\* in order, the message of the ValueError it raised, if any, and the value
\* it returned, which is the value the validation of the model yields.
Raise(n, m) ==
    [evaluated |-> [i \in 1..n |-> i], raised |-> Some(m), returned |-> None]
\* return self
Return(n, self) ==
    [evaluated |-> [i \in 1..n |-> i], raised |-> None, returned |-> Some(self)]
\* The body ends without a return statement: the validator returns None.
ReturnNone(n) ==
    [evaluated |-> [i \in 1..n |-> i], raised |-> None, returned |-> None]

\* The outcome of a construction: record is the instance the constructor
\* leaves (self, with its validated fields), result is the value the
\* validation yields (what the last validator returned).
Invalid(errs) ==
    [status |-> "field", errors |-> errs, evaluated |-> <<>>, record |-> None,
     result |-> None]
Rejected(v) ==
    [status |-> "cross", errors |-> <<CrossViolation(v.raised[1])>>,
     evaluated |-> v.evaluated, record |-> None, result |-> None]
Constructed(rec, v) ==
    [status |-> "ok", errors |-> <<>>, evaluated |-> v.evaluated,
     record |-> Some(rec), result |-> v.returned]

\* Mutant: the model validator runs whatever the field constraints found.
Construct_ValidatorFirst(errs, rec, v) ==
    IF v.raised # None THEN Rejected(v)
    ELSE IF errs # <<>> THEN Invalid(errs)
    ELSE Constructed(rec, v)

\* pydantic runs a mode="after" validator on the instance built from the
\* validated fields, hence only when no field constraint failed.
Construct(errs, rec, v) ==
    IF errs # <<>> THEN Invalid(errs)
    ELSE IF v.raised # None THEN Rejected(v)
    ELSE Constructed(rec, v)

(***************************************************************************)
(* ex1: AlienContact                                                       *)
(***************************************************************************)
ContactType == {"RADIO", "VISUAL", "PHYSICAL", "TELEPATHIC"}

MsgContactPrefix == "Contact ID must start with 'AC'"
MsgContactVerified == "Physical contact reports must be verified"
MsgContactWitnesses == "Telepathic contact requires at least 3 witnesses"
MsgContactSignal == "Strong signals (> 7.0) should include received messages"

\* Mutant: is_verified defaults to True.
AlienContact_fields_DefaultVerified(d) ==
    [contact_id |-> d.contact_id,
     timestamp |-> d.timestamp,
     location |-> d.location,
     contact_type |-> d.contact_type,
     signal_strength |-> d.signal_strength,
     duration_minutes |-> d.duration_minutes,
     message_received |-> WithDefault(d, "message_received", None),
     witness_count |-> d.witness_count,
     is_verified |-> WithDefault(d, "is_verified", TRUE)]

\* The instance: the given fields with the defaults filled in.
AlienContact_fields(d) ==
    [contact_id |-> d.contact_id,
     timestamp |-> d.timestamp,
     location |-> d.location,
     contact_type |-> d.contact_type,
     signal_strength |-> d.signal_strength,
     duration_minutes |-> d.duration_minutes,
     message_received |-> WithDefault(d, "message_received", None),
     witness_count |-> d.witness_count,
     is_verified |-> WithDefault(d, "is_verified", FALSE)]

\* The field constraints, in declaration order.
AlienContact_field_errors(d) ==
    LET c == AlienContact_fields(d) IN
       StrField("contact_id", c.contact_id, 5, 15)
    \o StrField("location", c.location, 3, 100)
    \o EnumField("contact_type", c.contact_type, ContactType)
    \o NumField("signal_strength", c.signal_strength, Tenths(0), Tenths(10))
    \o NumField("duration_minutes", c.duration_minutes, 1, 1440)
    \o OptStrField("message_received", c.message_received, 500)
    \o NumField("witness_count", c.witness_count, 1, 100)

\* Mutant: the verification check placed before the prefix check.
AlienContact_validate_VerifiedFirst(self) ==
    IF ~self.is_verified
    THEN Raise(1, MsgContactVerified)
    ELSE IF ~StartsWith(self.contact_id, <<"A", "C">>)
    THEN Raise(2, MsgContactPrefix)
    ELSE IF self.contact_type = "TELEPATHIC" /\ self.witness_count < 3
    THEN Raise(3, MsgContactWitnesses)
    ELSE IF self.signal_strength > Tenths(7) /\ self.message_received = None
    THEN Raise(4, MsgContactSignal)
    ELSE Return(4, self)

\* Mutant: verification required of PHYSICAL contacts only, as the message
\* of the check reads.
AlienContact_validate_PhysicalOnly(self) ==
    IF ~StartsWith(self.contact_id, <<"A", "C">>)
    THEN Raise(1, MsgContactPrefix)
    ELSE IF self.contact_type = "PHYSICAL" /\ ~self.is_verified
    THEN Raise(2, MsgContactVerified)
    ELSE IF self.contact_type = "TELEPATHIC" /\ self.witness_count < 3
    THEN Raise(3, MsgContactWitnesses)
    ELSE IF self.signal_strength > Tenths(7) /\ self.message_received = None
    THEN Raise(4, MsgContactSignal)
    ELSE Return(4, self)

\* Mutant: 3 witnesses are not enough.
AlienContact_validate_WitnessesOffByOne(self) ==
    IF ~StartsWith(self.contact_id, <<"A", "C">>)
    THEN Raise(1, MsgContactPrefix)
    ELSE IF ~self.is_verified
    THEN Raise(2, MsgContactVerified)
    ELSE IF self.contact_type = "TELEPATHIC" /\ self.witness_count <= 3
    THEN Raise(3, MsgContactWitnesses)
    ELSE IF self.signal_strength > Tenths(7) /\ self.message_received = None
    THEN Raise(4, MsgContactSignal)
    ELSE Return(4, self)

\* Mutant: a signal of exactly 7.0 counts as strong.
AlienContact_validate_SignalInclusive(self) ==
    IF ~StartsWith(self.contact_id, <<"A", "C">>)
    THEN Raise(1, MsgContactPrefix)
    ELSE IF ~self.is_verified
    THEN Raise(2, MsgContactVerified)
    ELSE IF self.contact_type = "TELEPATHIC" /\ self.witness_count < 3
    THEN Raise(3, MsgContactWitnesses)
    ELSE IF self.signal_strength >= Tenths(7) /\ self.message_received = None
    THEN Raise(4, MsgContactSignal)
    ELSE Return(4, self)

AlienContact_validate(self) ==
    IF ~StartsWith(self.contact_id, <<"A", "C">>)
    THEN Raise(1, MsgContactPrefix)
    ELSE IF ~self.is_verified
    THEN Raise(2, MsgContactVerified)
    ELSE IF self.contact_type = "TELEPATHIC" /\ self.witness_count < 3
    THEN Raise(3, MsgContactWitnesses)
    ELSE IF self.signal_strength > Tenths(7) /\ self.message_received = None
    THEN Raise(4, MsgContactSignal)
    ELSE Return(4, self)

AlienContact(d) ==
    Construct(AlienContact_field_errors(d), AlienContact_fields(d),
              AlienContact_validate(AlienContact_fields(d)))

\* Inputs explored.
ContactIds ==
    {<<"A", "C", "_", "2", "0", "2", "4", "_", "0", "0", "1">>,
     <<"W", "R", "O", "N", "G", "_", "F", "O", "R", "M", "A", "T">>,
     <<"A", "C", "_", "1">>}
ContactLocations == {<<"R", "o", "s", "w", "e", "l", "l">>, <<"R", "2">>}
ContactTypesGiven == ContactType \cup {"radio"}
ContactSignals == {62, 70, 71, 85, 101}
ContactDurations == {0, 45}
ContactMessages == {None, Some(<<>>), Some(<<"G", "r", "e", "e", "t">>)}
ContactWitnesses == {0, 1, 2, 3, 5}

ContactRequired ==
    [contact_id : ContactIds,
     timestamp : {"2024-01-15T22:30:00"},
     location : ContactLocations,
     contact_type : ContactTypesGiven,
     signal_strength : ContactSignals,
     duration_minutes : ContactDurations,
     message_received : ContactMessages,
     witness_count : ContactWitnesses]

\* The valid contact of the demonstration.
ContactBase ==
    [contact_id |-> <<"A", "C", "_", "2", "0", "2", "4", "_", "0", "0", "1">>,
     timestamp |-> "2024-01-15T22:30:00",
     location |-> <<"A", "r", "e", "a", " ", "5", "1">>,
     contact_type |-> "RADIO",
     signal_strength |-> 85,
     duration_minutes |-> 45,
     witness_count |-> 5,
     message_received |-> Some(<<"G", "r", "e", "e", "t">>),
     is_verified |-> TRUE]

\* The demonstration's contact with one field at, or one unit beyond, a
\* declared bound.
ContactBoundary ==
    {With(ContactBase, "contact_id", Pad(<<"A", "C">>, n)) : n \in {4, 5, 15, 16}}
    \cup {With(ContactBase, "location", Pad(<<>>, n)) : n \in {2, 3, 100, 101}}
    \cup {With(ContactBase, "signal_strength", v) : v \in {-1, 0, 100, 101}}
    \cup {With(ContactBase, "duration_minutes", v) : v \in {0, 1, 1440, 1441}}
    \cup {With(ContactBase, "message_received", Some(Pad(<<>>, n))) :
            n \in {500, 501}}
    \cup {With(ContactBase, "witness_count", v) : v \in {0, 1, 100, 101}}

ContactInputs ==
    ContactRequired
    \cup {d @@ ("is_verified" :> b) : d \in ContactRequired, b \in BOOLEAN}
    \cup ContactBoundary

(***************************************************************************)
(* ex2: CrewMember and SpaceMission                                        *)
(***************************************************************************)
Rank == {"CADET", "OFFICER", "LIEUTENANT", "CAPTAIN", "COMMANDER"}

MsgMissionPrefix == "Mission ID must start with 'M'"
MsgMissionCommand == "Must have at least one Commander or Captain"
MsgMissionExperience ==
    "Long missions (> 365 days) need 50% experienced crew (5+ years)"
MsgMissionActive == "All crew members must be active"

CrewMember_fields(d) ==
    [member_id |-> d.member_id,
     name |-> d.name,
     rank |-> d.rank,
     age |-> d.age,
     specialization |-> d.specialization,
     years_experience |-> d.years_experience,
     is_active |-> WithDefault(d, "is_active", TRUE)]

CrewMember_field_errors(d) ==
    LET m == CrewMember_fields(d) IN
       StrField("member_id", m.member_id, 3, 10)
    \o StrField("name", m.name, 2, 50)
    \o EnumField("rank", m.rank, Rank)
    \o NumField("age", m.age, 18, 80)
    \o StrField("specialization", m.specialization, 3, 30)
    \o NumField("years_experience", m.years_experience, 0, 50)

\* Mutant: only the first member of the crew is validated.
SpaceMission_crew_errors_FirstOnly(d) ==
    IF "crew" \notin DOMAIN d THEN <<>>
    ELSE IF Len(d.crew) > 12 THEN <<FieldViolation("crew", "too_long")>>
    ELSE IF Len(d.crew) < 1 THEN <<FieldViolation("crew", "too_short")>>
    ELSE LET errs == CrewMember_field_errors(d.crew[1]) IN
         [j \in 1..Len(errs) |-> NestedViolation("crew", 0, errs[j])]

\* crew: List[CrewMember] = Field(default_factory=list, min_length=1,
\* max_length=12).  The default is not validated; a list that is given is
\* refused as too long before its members are reported, and otherwise every
\* member is validated and reported under its zero-based index.
SpaceMission_crew_errors(d) ==
    IF "crew" \notin DOMAIN d THEN <<>>
    ELSE IF Len(d.crew) > 12 THEN <<FieldViolation("crew", "too_long")>>
    ELSE IF Len(d.crew) < 1 THEN <<FieldViolation("crew", "too_short")>>
    ELSE Flatten([i \in 1..Len(d.crew) |->
            LET errs == CrewMember_field_errors(d.crew[i]) IN
            [j \in 1..Len(errs) |-> NestedViolation("crew", i - 1, errs[j])]])

SpaceMission_fields(d) ==
    LET crew == WithDefault(d, "crew", <<>>) IN
    [mission_id |-> d.mission_id,
     mission_name |-> d.mission_name,
     destination |-> d.destination,
     launch_date |-> d.launch_date,
     duration_days |-> d.duration_days,
     crew |-> [i \in 1..Len(crew) |-> CrewMember_fields(crew[i])],
     mission_status |-> WithDefault(d, "mission_status",
                            <<"p", "l", "a", "n", "n", "e", "d">>),
     budget_millions |-> d.budget_millions]

SpaceMission_field_errors(d) ==
    LET m == SpaceMission_fields(d) IN
       StrField("mission_id", m.mission_id, 5, 15)
    \o StrField("mission_name", m.mission_name, 3, 100)
    \o StrField("destination", m.destination, 3, 50)
    \o NumField("duration_days", m.duration_days, 1, 3650)
    \o SpaceMission_crew_errors(d)
    \o NumField("budget_millions", m.budget_millions, Tenths(1), Tenths(10000))

\* Mutant: a CAPTAIN does not count as command rank.
Found_CommanderOnly(crew) ==
    \E i \in 1..Len(crew) : crew[i].rank = "COMMANDER"

\* for cr in self.crew: if cr.rank in (Rank.COMMANDER, Rank.CAPTAIN): found
Found(crew) ==
    \E i \in 1..Len(crew) : crew[i].rank \in {"COMMANDER", "CAPTAIN"}

\* Mutant: 5 years count as experienced.
Crew_h_exp_Inclusive(crew) ==
    Cardinality({i \in 1..Len(crew) : crew[i].years_experience >= 5})

\* for cr in self.crew: if cr.years_experience > 5: crew_h_exp += 1
Crew_h_exp(crew) ==
    Cardinality({i \in 1..Len(crew) : crew[i].years_experience > 5})

\* Mutant: only the first member of the crew is looked at.
HasInactive_FirstOnly(crew) == crew # <<>> /\ crew[1].is_active = FALSE

\* for cr in self.crew: if cr.is_active == False
HasInactive(crew) == \E i \in 1..Len(crew) : crew[i].is_active = FALSE

SpaceMission_validate(self) ==
    IF ~StartsWith(self.mission_id, <<"M">>)
    THEN Raise(1, MsgMissionPrefix)
    ELSE IF self.crew # <<>> /\ ~Found(self.crew)
    THEN Raise(2, MsgMissionCommand)
    ELSE IF /\ self.duration_days > 365
            /\ Crew_h_exp(self.crew) * 2 < Len(self.crew)
    THEN Raise(3, MsgMissionExperience)
    ELSE IF self.crew # <<>> /\ HasInactive(self.crew)
    THEN Raise(4, MsgMissionActive)
    ELSE ReturnNone(4)

SpaceMission(d) ==
    Construct(SpaceMission_field_errors(d), SpaceMission_fields(d),
              SpaceMission_validate(SpaceMission_fields(d)))

\* Inputs explored.
Member(rank, age, years, active) ==
    [member_id |-> <<"C", "M", "0", "0", "1">>,
     name |-> <<"S", "a", "r", "a", "h">>,
     rank |-> rank,
     age |-> age,
     specialization |-> <<"N", "a", "v">>,
     years_experience |-> years,
     is_active |-> active]

ValidMembers ==
    {Member(r, 45, y, TRUE) : r \in {"COMMANDER", "OFFICER"}, y \in {2, 5, 6}}
    \cup {Member("CAPTAIN", 45, 5, TRUE),
          Member("OFFICER", 45, 6, FALSE),
          Member("COMMANDER", 45, 2, FALSE)}

InvalidMembers ==
    {Member("COMMANDER", 17, 6, TRUE), Member("commander", 45, 6, TRUE)}

\* A member given without is_active.
DefaultActiveMember ==
    [f \in DOMAIN Member("OFFICER", 45, 6, TRUE) \ {"is_active"} |->
        Member("OFFICER", 45, 6, TRUE)[f]]

Members == ValidMembers \cup InvalidMembers \cup {DefaultActiveMember}

Crews == UNION {[1..n -> Members] : n \in 0..MaxCrew}

\* A crew of n members like the first of the demonstration, all valid.
FullCrew(n) == [i \in 1..n |-> Member("COMMANDER", 45, 20, TRUE)]

Mission(id, days, budget) ==
    [mission_id |-> id,
     mission_name |-> <<"M", "a", "r", "s">>,
     destination |-> <<"M", "a", "r", "s">>,
     launch_date |-> "2024-06-01T10:00:00",
     duration_days |-> days,
     budget_millions |-> budget]

MissionIds ==
    {<<"M", "2", "0", "2", "4", "_", "M", "A", "R", "S">>,
     <<"X", "2", "0", "2", "4", "_", "M", "A", "R", "S">>}

MissionsWithoutCrew ==
    {Mission(id, days, 25000) : id \in MissionIds, days \in {365, 366, 900}}
    \cup {Mission(<<"M", "2", "4">>, 900, 25000),
          Mission(<<"X", "2", "0", "2", "4">>, 0, 25000),
          Mission(<<"M", "2", "0", "2", "4">>, 900, 5)}

\* The first member of the demonstration's crew.
MemberBase ==
    [member_id |-> <<"C", "M", "0", "0", "1">>,
     name |-> <<"S", "a", "r", "a", "h">>,
     rank |-> "COMMANDER",
     age |-> 45,
     specialization |-> <<"C", "o", "m", "m", "a", "n", "d">>,
     years_experience |-> 20,
     is_active |-> TRUE]

\* That member with one field at, or one unit beyond, a declared bound.
MemberBoundary ==
    {With(MemberBase, "member_id", Pad(<<>>, n)) : n \in {2, 3, 10, 11}}
    \cup {With(MemberBase, "name", Pad(<<>>, n)) : n \in {1, 2, 50, 51}}
    \cup {With(MemberBase, "age", v) : v \in {17, 18, 80, 81}}
    \cup {With(MemberBase, "specialization", Pad(<<>>, n)) : n \in {2, 3, 30, 31}}
    \cup {With(MemberBase, "years_experience", v) : v \in {-1, 0, 50, 51}}

\* A one-year mission like the demonstration's, with a crew of one.
MissionBase ==
    Mission(<<"M", "2", "0", "2", "4", "_", "M", "A", "R", "S">>, 365, 25000)
    @@ ("crew" :> <<MemberBase>>)

\* That mission with one field, or one field of its crew member, or the
\* length of its crew, at or one unit beyond a declared bound.
MissionBoundary ==
    {With(MissionBase, "mission_id", Pad(<<"M">>, n)) : n \in {4, 5, 15, 16}}
    \cup {With(MissionBase, "mission_name", Pad(<<>>, n)) : n \in {2, 3, 100, 101}}
    \cup {With(MissionBase, "destination", Pad(<<>>, n)) : n \in {2, 3, 50, 51}}
    \cup {With(MissionBase, "duration_days", v) : v \in {0, 1, 3650, 3651}}
    \cup {With(MissionBase, "budget_millions", v) : v \in {9, 10, 100000, 100001}}
    \cup {With(MissionBase, "crew", FullCrew(n)) : n \in {0, 1, 12, 13}}
    \cup {With(MissionBase, "crew", <<m>>) : m \in MemberBoundary}

MissionInputs ==
    MissionsWithoutCrew
    \cup {d @@ ("crew" :> c) : d \in MissionsWithoutCrew,
                               c \in Crews \cup {FullCrew(12), FullCrew(13)}}
    \cup MissionBoundary

(***************************************************************************)
(* ex0: SpaceStation                                                       *)
(***************************************************************************)
SpaceStation_fields(d) ==
    [station_id |-> d.station_id,
     name |-> d.name,
     crew_size |-> d.crew_size,
     power_level |-> d.power_level,
     oxygen_level |-> d.oxygen_level,
     last_maintenance |-> d.last_maintenance,
     is_operational |-> WithDefault(d, "is_operational", TRUE),
     notes |-> WithDefault(d, "notes", None)]

\* Mutant: validation stops at the first field that fails.
SpaceStation_field_errors_FailFast(d) ==
    LET s == SpaceStation_fields(d)
        all == StrField("station_id", s.station_id, 3, 10)
            \o StrField("name", s.name, 1, 50)
            \o NumField("crew_size", s.crew_size, 1, 20)
            \o NumField("power_level", s.power_level, Tenths(0), Tenths(100))
            \o NumField("oxygen_level", s.oxygen_level, Tenths(0), Tenths(100))
            \o OptStrField("notes", s.notes, 200)
    IN  IF all = <<>> THEN <<>> ELSE <<Head(all)>>

SpaceStation_field_errors(d) ==
    LET s == SpaceStation_fields(d) IN
       StrField("station_id", s.station_id, 3, 10)
    \o StrField("name", s.name, 1, 50)
    \o NumField("crew_size", s.crew_size, 1, 20)
    \o NumField("power_level", s.power_level, Tenths(0), Tenths(100))
    \o NumField("oxygen_level", s.oxygen_level, Tenths(0), Tenths(100))
    \o OptStrField("notes", s.notes, 200)

\* SpaceStation declares no model validator.
SpaceStation(d) ==
    Construct(SpaceStation_field_errors(d), SpaceStation_fields(d),
              Return(0, SpaceStation_fields(d)))

\* Inputs explored.
StationRequired ==
    [station_id : {<<"I", "S", "S", "0", "0", "1">>, <<"T", "S">>,
                   Pad(<<"T", "O", "O", "L", "O", "N", "G">>, 13)},
     name : {<<>>, <<"T", "e", "s", "t">>},
     crew_size : {0, 1, 6, 20, 21, 25},
     power_level : {-100, 0, 855, 1000, 1001},
     oxygen_level : {923, 1500},
     last_maintenance : {"2024-01-15T10:30:00"}]

\* The valid station of the demonstration.
StationBase ==
    [station_id |-> <<"I", "S", "S", "0", "0", "1">>,
     name |-> <<"I", "S", "S">>,
     crew_size |-> 6,
     power_level |-> 855,
     oxygen_level |-> 923,
     is_operational |-> TRUE,
     last_maintenance |-> "2024-01-15T10:30:00"]

\* That station with one field at, or one unit beyond, a declared bound.
StationBoundary ==
    {With(StationBase, "station_id", Pad(<<>>, n)) : n \in {2, 3, 10, 11}}
    \cup {With(StationBase, "name", Pad(<<>>, n)) : n \in {0, 1, 50, 51}}
    \cup {With(StationBase, "crew_size", v) : v \in {0, 1, 20, 21}}
    \cup {With(StationBase, "power_level", v) : v \in {-1, 0, 1000, 1001}}
    \cup {With(StationBase, "oxygen_level", v) : v \in {-1, 0, 1000, 1001}}
    \cup {With(StationBase, "notes", Some(Pad(<<>>, n))) : n \in {200, 201}}

StationInputs ==
    StationRequired
    \cup StationBoundary
    \cup {d @@ ("is_operational" :> b) : d \in StationRequired, b \in BOOLEAN}
    \cup {d @@ ("notes" :> n) : d \in StationRequired,
            n \in {None, Some(Pad(<<>>, 200)), Some(Pad(<<>>, 201))}}

(***************************************************************************)
(* Serialization: the string-keyed mapping of a record (model_dump), which *)
(* holds every declared field, defaults included, and the mapping of every *)
(* crew member in place of the member.                                     *)
(***************************************************************************)
SpaceStation_model_dump(self) ==
    [station_id |-> self.station_id,
     name |-> self.name,
     crew_size |-> self.crew_size,
     power_level |-> self.power_level,
     oxygen_level |-> self.oxygen_level,
     last_maintenance |-> self.last_maintenance,
     is_operational |-> self.is_operational,
     notes |-> self.notes]

AlienContact_model_dump(self) ==
    [contact_id |-> self.contact_id,
     timestamp |-> self.timestamp,
     location |-> self.location,
     contact_type |-> self.contact_type,
     signal_strength |-> self.signal_strength,
     duration_minutes |-> self.duration_minutes,
     message_received |-> self.message_received,
     witness_count |-> self.witness_count,
     is_verified |-> self.is_verified]

CrewMember_model_dump(self) ==
    [member_id |-> self.member_id,
     name |-> self.name,
     rank |-> self.rank,
     age |-> self.age,
     specialization |-> self.specialization,
     years_experience |-> self.years_experience,
     is_active |-> self.is_active]

SpaceMission_model_dump(self) ==
    [mission_id |-> self.mission_id,
     mission_name |-> self.mission_name,
     destination |-> self.destination,
     launch_date |-> self.launch_date,
     duration_days |-> self.duration_days,
     crew |-> [i \in 1..Len(self.crew) |-> CrewMember_model_dump(self.crew[i])],
     mission_status |-> self.mission_status,
     budget_millions |-> self.budget_millions]

(***************************************************************************)
(* The program: an input is given, and the constructor of its model runs.  *)
(***************************************************************************)
NoOutcome ==
    [status |-> "none", errors |-> <<>>, evaluated |-> <<>>, record |-> None,
     result |-> None]

Init ==
    /\ \/ kind = "station" /\ input \in StationInputs
       \/ kind = "contact" /\ input \in ContactInputs
       \/ kind = "mission" /\ input \in MissionInputs
    /\ pc = "raw"
    /\ outcome = NoOutcome

ConstructStation ==
    /\ pc = "raw"
    /\ kind = "station"
    /\ outcome' = SpaceStation(input)
    /\ pc' = "done"
    /\ UNCHANGED <<kind, input>>

ConstructContact ==
    /\ pc = "raw"
    /\ kind = "contact"
    /\ outcome' = AlienContact(input)
    /\ pc' = "done"
    /\ UNCHANGED <<kind, input>>

ConstructMission ==
    /\ pc = "raw"
    /\ kind = "mission"
    /\ outcome' = SpaceMission(input)
    /\ pc' = "done"
    /\ UNCHANGED <<kind, input>>

Next == ConstructStation \/ ConstructContact \/ ConstructMission

Spec == Init /\ [][Next]_vars

(***************************************************************************)
(* The vocabulary of the specification, stated over the raw input: the     *)
(* declared bounds of the data model and the numbered cross-field rules.   *)
(***************************************************************************)
Done(k) == pc = "done" /\ kind = k

OnlyViolation(m) == outcome.errors = <<CrossViolation(m)>>

HasCrossViolation ==
    \E i \in 1..Len(outcome.errors) : outcome.errors[i].type = "value_error"

\* Contact: every given field is within its declared bounds.
ContactInBounds(d) ==
    /\ Len(d.contact_id) \in 5..15
    /\ Len(d.location) \in 3..100
    /\ d.contact_type \in {"RADIO", "VISUAL", "PHYSICAL", "TELEPATHIC"}
    /\ d.signal_strength >= 0 /\ d.signal_strength <= 100
    /\ d.duration_minutes \in 1..1440
    /\ d.message_received = None \/ Len(d.message_received[1]) <= 500
    /\ d.witness_count \in 1..100

ContactVerified(d) == "is_verified" \in DOMAIN d /\ d.is_verified = TRUE

\* Contact: the numbers of the cross-field rules the input violates.
ContactViolated(d) ==
    {n \in 1..4 :
        \/ n = 1 /\ ~(Len(d.contact_id) >= 2 /\ d.contact_id[1] = "A"
                      /\ d.contact_id[2] = "C")
        \/ n = 2 /\ ~ContactVerified(d)
        \/ n = 3 /\ d.contact_type = "TELEPATHIC" /\ d.witness_count < 3
        \/ n = 4 /\ d.signal_strength > 70 /\ d.message_received = None}

ContactMsg(n) ==
    CASE n = 1 -> MsgContactPrefix
      [] n = 2 -> MsgContactVerified
      [] n = 3 -> MsgContactWitnesses
      [] n = 4 -> MsgContactSignal

Lowest(S) == CHOOSE n \in S : \A m \in S : n <= m

\* Crew member: the fields of the given member that are out of bounds.
MemberBadFields(m) ==
    {f \in {"member_id", "name", "rank", "age", "specialization",
            "years_experience"} :
        \/ f = "member_id" /\ Len(m.member_id) \notin 3..10
        \/ f = "name" /\ Len(m.name) \notin 2..50
        \/ f = "rank" /\ m.rank \notin {"CADET", "OFFICER", "LIEUTENANT",
                                       "CAPTAIN", "COMMANDER"}
        \/ f = "age" /\ m.age \notin 18..80
        \/ f = "specialization" /\ Len(m.specialization) \notin 3..30
        \/ f = "years_experience" /\ m.years_experience \notin 0..50}

\* The crew list the input gives (none when the key is absent).
GivenCrew(d) == IF "crew" \in DOMAIN d THEN d.crew ELSE <<>>

\* Mission: every given field, the crew list included, is within bounds.
MissionInBounds(d) ==
    /\ Len(d.mission_id) \in 5..15
    /\ Len(d.mission_name) \in 3..100
    /\ Len(d.destination) \in 3..50
    /\ d.duration_days \in 1..3650
    /\ d.budget_millions >= 10 /\ d.budget_millions <= 100000
    /\ "crew" \in DOMAIN d =>
          /\ Len(d.crew) \in 1..12
          /\ \A i \in 1..Len(d.crew) : MemberBadFields(d.crew[i]) = {}

(***************************************************************************)
(* Claims                                                                  *)
(***************************************************************************)

\* C1: for a Contact and for a Mission, whenever a field constraint of the
\* record or of a nested crew member fails, the outcome holds field
\* violations only and no cross-field rule has been evaluated.
C1_FieldsBeforeRules ==
    /\ Done("contact") /\ ~ContactInBounds(input) =>
          /\ outcome.status = "field" /\ outcome.errors # <<>>
          /\ ~HasCrossViolation /\ outcome.evaluated = <<>>
    /\ Done("mission") /\ ~MissionInBounds(input) =>
          /\ outcome.status = "field" /\ outcome.errors # <<>>
          /\ ~HasCrossViolation /\ outcome.evaluated = <<>>

\* C1 witness: a Mission whose identifier lacks the prefix and whose second
\* crew member is under age is refused on the member's field alone.
C1_Witness ==
    /\ Done("mission")
    /\ input.mission_id[1] # "M"
    /\ Len(GivenCrew(input)) = 2
    /\ MemberBadFields(input.crew[1]) = {}
    /\ MemberBadFields(input.crew[2]) = {"age"}
    /\ outcome.status = "field"

\* C2: a field-valid Contact that violates one or more cross-field rules is
\* rejected with exactly one violation, that of the lowest-numbered violated
\* rule; WRONG_FORMAT with is_verified false gets the prefix violation.
C2_ContactFailFast ==
    Done("contact") /\ ContactInBounds(input) =>
       /\ ContactViolated(input) # {} =>
             /\ outcome.status = "cross"
             /\ OnlyViolation(ContactMsg(Lowest(ContactViolated(input))))
       /\ /\ input.contact_id =
                <<"W", "R", "O", "N", "G", "_", "F", "O", "R", "M", "A", "T">>
          /\ ~ContactVerified(input)
          => OnlyViolation(MsgContactPrefix)

\* C2 witness: WRONG_FORMAT, unverified, strong signal without message
\* (rules 1, 2 and 4 violated) is rejected with the prefix violation.
C2_Witness ==
    /\ Done("contact") /\ ContactInBounds(input)
    /\ ContactViolated(input) = {1, 2, 4}
    /\ "is_verified" \in DOMAIN input
    /\ OnlyViolation(MsgContactPrefix)

WitnessesRejected == outcome.status = "cross" /\ OnlyViolation(MsgContactWitnesses)

\* C4 as stated: for a field-valid, AC-prefixed, verified Contact, TELEPATHIC
\* with fewer than 3 witnesses is rejected for witnesses, TELEPATHIC with 3
\* witnesses succeeds, and other types with 1..2 witnesses never get the
\* witnesses violation.
C4_AsStated ==
    /\ Done("contact") /\ ContactInBounds(input)
    /\ 1 \notin ContactViolated(input) /\ ContactVerified(input)
    => /\ input.contact_type = "TELEPATHIC" /\ input.witness_count < 3
             => WitnessesRejected
       /\ input.contact_type = "TELEPATHIC" /\ input.witness_count = 3
             => outcome.status = "ok"
       /\ input.contact_type # "TELEPATHIC" /\ input.witness_count \in 1..2
             => ~WitnessesRejected

\* C4 (amended): as stated, except that TELEPATHIC with 3 witnesses passes
\* the witnesses rule and succeeds exactly when it also satisfies rule 4
\* (signal_strength <= 7.0 or a message present); otherwise it is rejected
\* with the strong-signal violation.
C4_TelepathicWitnesses ==
    /\ Done("contact") /\ ContactInBounds(input)
    /\ 1 \notin ContactViolated(input) /\ ContactVerified(input)
    => /\ input.contact_type = "TELEPATHIC" /\ input.witness_count < 3
             => WitnessesRejected
       /\ input.contact_type = "TELEPATHIC" /\ input.witness_count = 3
             => /\ ~WitnessesRejected
                /\ 4 \notin ContactViolated(input) => outcome.status = "ok"
                /\ 4 \in ContactViolated(input) =>
                      outcome.status = "cross" /\ OnlyViolation(MsgContactSignal)
       /\ input.contact_type # "TELEPATHIC" /\ input.witness_count \in 1..2
             => ~WitnessesRejected

\* C4 witness: a verified TELEPATHIC contact with exactly 3 witnesses and a
\* signal of 6.2 without message is constructed.
C4_Witness ==
    /\ Done("contact") /\ ContactInBounds(input)
    /\ input.contact_type = "TELEPATHIC" /\ input.witness_count = 3
    /\ input.signal_strength = 62 /\ input.message_received = None
    /\ ContactVerified(input)
    /\ outcome.status = "ok"

\* C5: a field-valid Contact that passes rules 1-3 is rejected, with the
\* strong-signal violation, exactly when signal_strength > 7.0 and no
\* message is present; otherwise it is accepted (7.0 itself, or any signal
\* with a message).
C5_StrongSignal ==
    /\ Done("contact") /\ ContactInBounds(input)
    /\ ContactViolated(input) \cap {1, 2, 3} = {}
    => IF input.signal_strength > 70 /\ input.message_received = None
       THEN outcome.status = "cross" /\ OnlyViolation(MsgContactSignal)
       ELSE outcome.status = "ok"

\* C5 witness: a signal of exactly 7.0 without message is accepted.
C5_Witness ==
    /\ Done("contact") /\ ContactInBounds(input)
    /\ input.signal_strength = 70 /\ input.message_received = None
    /\ outcome.status = "ok"

\* Mission: the numbers of the cross-field rules the input violates.
Experienced(crew) == {i \in 1..Len(crew) : crew[i].years_experience > 5}

HasCommand(crew) ==
    \E i \in 1..Len(crew) : crew[i].rank = "COMMANDER" \/ crew[i].rank = "CAPTAIN"

\* is_active of a given member (true when the key is absent).
MemberActive(m) == "is_active" \in DOMAIN m => m.is_active = TRUE

MissionViolated(d) ==
    LET crew == GivenCrew(d) IN
    {n \in 1..4 :
        \/ n = 1 /\ d.mission_id[1] # "M"
        \/ n = 2 /\ crew # <<>> /\ ~HasCommand(crew)
        \/ n = 3 /\ d.duration_days > 365
                 /\ 2 * Cardinality(Experienced(crew)) < Len(crew)
        \/ n = 4 /\ \E i \in 1..Len(crew) : ~MemberActive(crew[i])}

\* C6: a Mission whose crew holds no COMMANDER or CAPTAIN is rejected with
\* the missing-command-rank violation, one whose crew holds such a member
\* passes that rule, and for an empty crew list the violation does not fire.
C6_CommandRank ==
    Done("mission") =>
       /\ MissionInBounds(input) /\ 1 \notin MissionViolated(input) =>
             IF GivenCrew(input) # <<>> /\ ~HasCommand(GivenCrew(input))
             THEN outcome.status = "cross" /\ OnlyViolation(MsgMissionCommand)
             ELSE /\ ~OnlyViolation(MsgMissionCommand)
                  /\ 2 \in {outcome.evaluated[i] :
                              i \in 1..Len(outcome.evaluated)}
       /\ GivenCrew(input) = <<>> => ~OnlyViolation(MsgMissionCommand)

\* C6 witness: a Mission with a crew of two OFFICERs is rejected for the
\* missing command rank.
C6_Witness ==
    /\ Done("mission") /\ MissionInBounds(input)
    /\ Len(GivenCrew(input)) = 2
    /\ \A i \in 1..2 : input.crew[i].rank = "OFFICER"
    /\ OnlyViolation(MsgMissionCommand)

C8_ScenarioD ==
    /\ Done("mission") /\ MissionInBounds(input)
    /\ input.mission_id[1] = "M"
    /\ input.duration_days = 900
    /\ Len(GivenCrew(input)) = 3
    /\ \E i \in 1..3 : input.crew[i].rank = "COMMANDER"
    /\ \A i \in 1..3 : MemberActive(input.crew[i])
    => LET n == Cardinality({i \in 1..3 : input.crew[i].years_experience >= 5})
       IN  /\ n >= 2 => outcome.status = "ok"
           /\ n = 1 => /\ outcome.status = "cross"
                       /\ OnlyViolation(MsgMissionExperience)

\* C9: a field-valid Mission that passes rules 1-3 and holds an inactive
\* member is rejected with the inactive-crew violation, after rules 1-3 have
\* been evaluated; every Mission record constructed has only active crew.
C9_AllActive ==
    Done("mission") =>
       /\ /\ MissionInBounds(input)
          /\ MissionViolated(input) \cap {1, 2, 3} = {}
          /\ 4 \in MissionViolated(input)
          => outcome.status = "cross" /\ OnlyViolation(MsgMissionActive)
       /\ OnlyViolation(MsgMissionActive) =>
             /\ outcome.evaluated = <<1, 2, 3, 4>>
             /\ MissionViolated(input) \cap {1, 2, 3} = {}
       /\ outcome.status = "ok" =>
             \A i \in 1..Len(outcome.record[1].crew) :
                outcome.record[1].crew[i].is_active = TRUE

\* C9 witness: the last of three members is the only inactive one and the
\* Mission is rejected for it.
C9_Witness ==
    /\ Done("mission") /\ MissionInBounds(input)
    /\ Len(GivenCrew(input)) = 3
    /\ MemberActive(input.crew[1]) /\ MemberActive(input.crew[2])
    /\ ~MemberActive(input.crew[3])
    /\ OnlyViolation(MsgMissionActive)

\* C10: when a crew member given at any position of a Mission's crew list
\* fails a Crew Member field constraint, construction fails with a
\* violation locating that member (its zero-based index) and field, and no
\* cross-field rule of the Mission is evaluated.
C10_NestedViolation ==
    /\ Done("mission")
    /\ Len(GivenCrew(input)) \in 1..12
    => \A i \in 1..Len(input.crew) :
          \A f \in MemberBadFields(input.crew[i]) :
             /\ outcome.status = "field"
             /\ outcome.record = None
             /\ outcome.evaluated = <<>>
             /\ ~HasCrossViolation
             /\ \E j \in 1..Len(outcome.errors) :
                   /\ outcome.errors[j].field = "crew"
                   /\ outcome.errors[j].index = i - 1
                   /\ outcome.errors[j].sub = f

\* C10 witness: the third of three members has a rank outside the
\* enumeration, the Mission violates rule 1, and the only violation is
\* crew.2.rank.
C10_Witness ==
    /\ Done("mission")
    /\ Len(GivenCrew(input)) = 3
    /\ MemberBadFields(input.crew[1]) = {}
    /\ MemberBadFields(input.crew[2]) = {}
    /\ MemberBadFields(input.crew[3]) = {"rank"}
    /\ input.mission_id[1] # "M"
    /\ Len(outcome.errors) = 1
    /\ outcome.errors[1].index = 2 /\ outcome.errors[1].sub = "rank"

\* Station: every given field is within its declared bounds.
StationInBounds(d) ==
    /\ Len(d.station_id) \in 3..10
    /\ Len(d.name) \in 1..50
    /\ d.crew_size \in 1..20
    /\ d.power_level >= 0 /\ d.power_level <= 1000
    /\ d.oxygen_level >= 0 /\ d.oxygen_level <= 1000
    /\ "notes" \in DOMAIN d => d.notes = None \/ Len(d.notes[1]) <= 200

\* Every field the mapping d gives has the same value in the record rec.
FieldsEqual(rec, d) == \A f \in DOMAIN d : rec[f] = d[f]

\* The same for a Mission, whose crew members are mappings themselves.
MissionFieldsEqual(rec, d) ==
    /\ \A f \in DOMAIN d \ {"crew"} : rec[f] = d[f]
    /\ Len(rec.crew) = Len(GivenCrew(d))
    /\ \A i \in 1..Len(GivenCrew(d)) : FieldsEqual(rec.crew[i], d.crew[i])

\* C11: an input whose fields are all within bounds and which satisfies
\* every cross-field rule of its type is validated successfully, and the
\* validation yields the constructed record, whose fields equal the input,
\* for a Station, a Contact and a Mission alike.
C11_ValidYieldsRecord ==
    /\ Done("station") /\ StationInBounds(input) =>
          /\ outcome.status = "ok" /\ outcome.result # None
          /\ FieldsEqual(outcome.result[1], input)
    /\ Done("contact") /\ ContactInBounds(input) /\ ContactViolated(input) = {} =>
          /\ outcome.status = "ok" /\ outcome.result # None
          /\ FieldsEqual(outcome.result[1], input)
    /\ /\ Done("mission") /\ MissionInBounds(input) /\ "crew" \in DOMAIN input
       /\ MissionViolated(input) = {}
       => /\ outcome.status = "ok" /\ outcome.result # None
          /\ MissionFieldsEqual(outcome.result[1], input)

\* The place a violation names: the field, and for a crew member its
\* zero-based position and its field.
Loc(f, i, g) == [field |-> f, index |-> i, sub |-> g]

\* The places the violations of the outcome name.
NamedLocs ==
    {Loc(outcome.errors[j].field, outcome.errors[j].index, outcome.errors[j].sub) :
        j \in 1..Len(outcome.errors)}

\* Station: the given fields whose value is outside the declared bounds.
StationBadFields(d) ==
    {f \in DOMAIN d :
        \/ f = "station_id" /\ (Len(d[f]) < 3 \/ Len(d[f]) > 10)
        \/ f = "name" /\ (Len(d[f]) < 1 \/ Len(d[f]) > 50)
        \/ f = "crew_size" /\ (d[f] < 1 \/ d[f] > 20)
        \/ f = "power_level" /\ (d[f] < 0 \/ d[f] > 1000)
        \/ f = "oxygen_level" /\ (d[f] < 0 \/ d[f] > 1000)
        \/ f = "notes" /\ d[f] # None /\ Len(d[f][1]) > 200}

\* Contact: the given fields whose value is outside the declared bounds.
ContactBadFields(d) ==
    {f \in DOMAIN d :
        \/ f = "contact_id" /\ (Len(d[f]) < 5 \/ Len(d[f]) > 15)
        \/ f = "location" /\ (Len(d[f]) < 3 \/ Len(d[f]) > 100)
        \/ f = "contact_type" /\ d[f] \notin {"RADIO", "VISUAL", "PHYSICAL",
                                             "TELEPATHIC"}
        \/ f = "signal_strength" /\ (d[f] < 0 \/ d[f] > 100)
        \/ f = "duration_minutes" /\ (d[f] < 1 \/ d[f] > 1440)
        \/ f = "message_received" /\ d[f] # None /\ Len(d[f][1]) > 500
        \/ f = "witness_count" /\ (d[f] < 1 \/ d[f] > 100)}

\* Mission: the given fields of the mission itself outside their bounds.
MissionBadFields(d) ==
    {f \in DOMAIN d :
        \/ f = "mission_id" /\ (Len(d[f]) < 5 \/ Len(d[f]) > 15)
        \/ f = "mission_name" /\ (Len(d[f]) < 3 \/ Len(d[f]) > 100)
        \/ f = "destination" /\ (Len(d[f]) < 3 \/ Len(d[f]) > 50)
        \/ f = "duration_days" /\ (d[f] < 1 \/ d[f] > 3650)
        \/ f = "budget_millions" /\ (d[f] < 10 \/ d[f] > 100000)
        \/ f = "crew" /\ (Len(d[f]) < 1 \/ Len(d[f]) > 12)}

\* The places at which a given value is outside its declared bounds.
BadLocs ==
    CASE kind = "station" -> {Loc(f, -1, "") : f \in StationBadFields(input)}
      [] kind = "contact" -> {Loc(f, -1, "") : f \in ContactBadFields(input)}
      [] kind = "mission" ->
            {Loc(f, -1, "") : f \in MissionBadFields(input)}
            \cup IF Len(GivenCrew(input)) \in 1..12
                 THEN UNION {{Loc("crew", i - 1, g) :
                                 g \in MemberBadFields(input.crew[i])} :
                             i \in 1..Len(input.crew)}
                 ELSE {}

\* C12: every numeric and length bound of a Station, a Contact, a Crew
\* Member and a Mission (the crew list's 1..12 included) is inclusive: the
\* violations name exactly the fields whose given value lies below the
\* minimum or above the maximum, so a value at a bound is accepted and a
\* value one unit beyond it is rejected with a violation naming the field.
C12_InclusiveBounds ==
    pc = "done" =>
       /\ BadLocs = {} => outcome.status # "field"
       /\ BadLocs # {} => outcome.status = "field" /\ NamedLocs = BadLocs

\* C12 witness: the one-year mission lengthened to exactly 3650 days, the
\* maximum, is constructed.
C12_Witness ==
    /\ Done("mission")
    /\ input.duration_days = 3650
    /\ BadLocs = {}
    /\ outcome.status = "ok"

\* The fields of each schema, in the order of their declaration.
StationOrder ==
    <<"station_id", "name", "crew_size", "power_level", "oxygen_level",
      "last_maintenance", "is_operational", "notes">>
ContactOrder ==
    <<"contact_id", "timestamp", "location", "contact_type", "signal_strength",
      "duration_minutes", "message_received", "witness_count", "is_verified">>
MemberOrder ==
    <<"member_id", "name", "rank", "age", "specialization", "years_experience",
      "is_active">>
MissionOrder ==
    <<"mission_id", "mission_name", "destination", "launch_date",
      "duration_days", "crew", "mission_status", "budget_millions">>

SchemaOrder ==
    CASE kind = "station" -> StationOrder
      [] kind = "contact" -> ContactOrder
      [] kind = "mission" -> MissionOrder

Pos(order, f) == CHOOSE i \in 1..Len(order) : order[i] = f

\* The violation e is reported where the schema puts it before e2.
Before(e, e2) ==
    \/ Pos(SchemaOrder, e.field) < Pos(SchemaOrder, e2.field)
    \/ /\ e.field = e2.field /\ e.index >= 0
       /\ \/ e.index < e2.index
          \/ e.index = e2.index /\ Pos(MemberOrder, e.sub) < Pos(MemberOrder, e2.sub)

\* C13: every declared field is checked even after an earlier one failed:
\* the outcome holds one field violation per offending field, in the order
\* the schema declares the fields (crew members by position), a list fixed
\* by the input; a Station with crew_size=25 as its only fault yields
\* exactly the violation on crew_size.
C13_AllFieldsInOrder ==
    pc = "done" /\ BadLocs # {} =>
       /\ outcome.status = "field"
       /\ NamedLocs = BadLocs
       /\ Len(outcome.errors) = Cardinality(BadLocs)
       /\ \A j, k \in 1..Len(outcome.errors) :
             j < k => Before(outcome.errors[j], outcome.errors[k])
       /\ /\ kind = "station" /\ input.crew_size = 25
          /\ StationBadFields(input) = {"crew_size"}
          => outcome.errors = <<FieldViolation("crew_size", "less_than_equal")>>

\* C13 witness: the exporter's first invalid station (identifier of 13
\* characters, crew_size=25) yields the violations of station_id and of
\* crew_size, in that order.
C13_Witness ==
    /\ Done("station")
    /\ Len(input.station_id) = 13 /\ input.crew_size = 25
    /\ StationBadFields(input) = {"station_id", "crew_size"}
    /\ Len(outcome.errors) = 2
    /\ outcome.errors[1].field = "station_id"
    /\ outcome.errors[2].field = "crew_size"

\* The record rec satisfies every field constraint and every cross-field
\* rule of its type.
RecordValid(rec) ==
    CASE kind = "station" -> StationInBounds(rec)
      [] kind = "contact" -> ContactInBounds(rec) /\ ContactViolated(rec) = {}
      [] kind = "mission" -> MissionInBounds(rec) /\ MissionViolated(rec) = {}

\* C14: a failed validation leaves no record, and every record that exists
\* satisfies all the field constraints and cross-field rules of its type.
C14_RecordsValid ==
    /\ outcome.status # "ok" => outcome.record = None
    /\ outcome.record # None => RecordValid(outcome.record[1])

\* The outcome of validating again the serialized form of the record rec.
Revalidated(rec) ==
    CASE kind = "station" -> SpaceStation(SpaceStation_model_dump(rec))
      [] kind = "contact" -> AlienContact(AlienContact_model_dump(rec))
      [] kind = "mission" -> SpaceMission(SpaceMission_model_dump(rec))

\* C15: for every Station, Contact or Mission record constructed,
\* validating its serialized mapping again succeeds and gives a record
\* equal to the original field for field.
C15_RoundTrip ==
    outcome.record # None =>
       LET again == Revalidated(outcome.record[1]) IN
       /\ again.status = "ok"
       /\ again.record = outcome.record

====
